---- MODULE Spec2Model ----
(***************************************************************************)
(* hn2kindle: the content extractor (content_extractor.py), the EPUB       *)
(* compiler (convert_epub.py), the dispatcher (send_kindle.py) and the     *)
(* orchestrator (main.py).                                                 *)
(*                                                                         *)
(* Text is a sequence of one-character strings.  Optional[T] is the record *)
(* None or Some(v).  The behaviour of the third-party libraries (requests, *)
(* trafilatura, newspaper) is the environment: each call draws what the    *)
(* library does from a bounded set.                                        *)
(***************************************************************************)
EXTENDS Integers, Sequences, FiniteSets, TLC

VARIABLES
    pc,         \* position of the extract_content call
    url,        \* extract_content's url argument
    status,     \* what requests.get / raise_for_status did in this call
    html,       \* response.text (Optional)
    calls,      \* the outbound retrievals and strategy invocations, in order
    tResult,    \* what extract_with_trafilatura returned (Optional record)
    nResult,    \* what extract_with_newspaper returned (Optional record)
    tKind,      \* how the trafilatura library behaved
    nKind,      \* how the newspaper library behaved
    result,     \* what extract_content returned (Optional record)
    posts,      \* create_epub's posts argument
    book,       \* the EpubBook create_epub wrote
    chapterIn,  \* create_chapter_html's arguments
    view,       \* the chapter view create_chapter_html returned
    sendIn,     \* send_to_kindle's arguments and the process environment
    sendOut,    \* how send_to_kindle ended, and the SMTP sessions it opened
    mpc,        \* position of main
    candidates, \* what fetch_top_posts returned
    extracted,  \* main's extract_content calls so far: url and how the call ended
    enriched,   \* main's enriched_posts
    report      \* what main printed about the send step

extractVars == <<pc, url, status, html, calls, tResult, nResult, tKind, nKind, result>>
epubVars == <<posts, book>>
chapterVars == <<chapterIn, view>>
sendVars == <<sendIn, sendOut>>
mainVars == <<mpc, candidates, extracted, enriched, report>>
vars == <<extractVars, epubVars, chapterVars, sendVars, mainVars>>

----------------------------------------------------------------------------
(* Bounds *)

MaxLen == 3
MaxPosts == 3
MaxEnvLen == 3
MaxCandidates == 2

----------------------------------------------------------------------------
(* Text *)

Alphabet == {"a", "\n", "&", "<", ">"}
Whitespace == {" ", "\n", "\t", "\r"}

TextsUpTo(n) == UNION {[1..k -> Alphabet] : k \in 0..n}
Texts == TextsUpTo(MaxLen)

None == [none |-> TRUE]
Some(v) == [none |-> FALSE, val |-> v]

\* Python truthiness of a str
Truthy(s) == s # <<>>

\* str.strip()
RECURSIVE LStrip(_)
LStrip(s) == IF s # <<>> /\ Head(s) \in Whitespace THEN LStrip(Tail(s)) ELSE s

RECURSIVE RStrip(_)
RStrip(s) ==
    IF s # <<>> /\ s[Len(s)] \in Whitespace THEN RStrip(SubSeq(s, 1, Len(s) - 1)) ELSE s

Strip(s) == RStrip(LStrip(s))

----------------------------------------------------------------------------
(* content_extractor.py *)

ExtractedContent(title, author, content, u, success, error) ==
    [title |-> title, author |-> author, content |-> content, url |-> u,
     success |-> success, error |-> error]

\* A literal the code never takes apart is kept as one element of the text
Placeholder == <<"[Content could not be extracted from this page]">>

Urls == {"https://a.example", "https://b.example"}
Markups == {"markup1", "markup2"}

\* What a strategy's metadata lookup can give: a title/author that is None, "" or text
MetaTexts == {None, Some(<<>>), Some(<<"a">>)}

\* trafilatura as the environment: the import, extract(...) and extract_metadata(...)
TrafilaturaBehaviours ==
    {[kind |-> "absent"], [kind |-> "error"], [kind |-> "empty", result |-> None],
     [kind |-> "empty", result |-> Some(<<>>)]}
    \cup {[kind |-> "value", result |-> Some(t), metadata |-> None] : t \in Texts \ {<<>>}}
    \cup {[kind |-> "value", result |-> Some(t), metadata |-> Some([title |-> mt, author |-> ma])] :
            t \in Texts \ {<<>>}, mt \in MetaTexts, ma \in MetaTexts}
    \cup {[kind |-> "metadata_error", result |-> Some(t)] : t \in Texts \ {<<>>}}

OrEmpty(o) == IF ~o.none /\ Truthy(o.val) THEN o.val ELSE <<>>

extract_with_trafilatura(u, h, lib) ==
    IF lib.kind = "absent" THEN None                 \* except ImportError
    ELSE IF lib.kind = "error" THEN None             \* except Exception
    ELSE IF ~lib.result.none /\ Truthy(lib.result.val)
         THEN IF lib.kind = "metadata_error" THEN None   \* except Exception
              ELSE LET metadata == lib.metadata
                       title == IF ~metadata.none THEN OrEmpty(metadata.val.title) ELSE <<>>
                       author == IF ~metadata.none THEN OrEmpty(metadata.val.author) ELSE <<>>
                   IN Some(ExtractedContent(title, author, lib.result.val, u, TRUE, None))
         ELSE None

\* ", ".join(authors)
RECURSIVE Join(_)
Join(authors) ==
    IF authors = <<>> THEN <<>>
    ELSE IF Len(authors) = 1 THEN Head(authors)
    ELSE Head(authors) \o <<",", " ">> \o Join(Tail(authors))

AuthorLists == {<<>>, <<<<"a">>>>, <<<<"a">>, <<"a">>>>}

\* newspaper as the environment: the import, download/parse, text, title, authors
NewspaperBehaviours ==
    {[kind |-> "absent"], [kind |-> "error"]}
    \cup {[kind |-> IF t = <<>> THEN "empty" ELSE "value", text |-> t, title |-> ti, authors |-> au] :
            t \in Texts, ti \in MetaTexts, au \in AuthorLists}

extract_with_newspaper(u, h, lib) ==
    IF lib.kind = "absent" THEN None                 \* except ImportError
    ELSE IF lib.kind = "error" THEN None             \* except Exception
    ELSE IF Truthy(lib.text)
         THEN Some(ExtractedContent(OrEmpty(lib.title),
                                    IF lib.authors # <<>> THEN Join(lib.authors) ELSE <<>>,
                                    lib.text, u, TRUE, None))
         ELSE None

\* "if result and result.content"
Accepted(r) == ~r.none /\ Truthy(r.val.content)

\* What requests.get(...) followed by response.raise_for_status() can do: a
\* transport error, a fault that is no RequestException (requests raises ValueError
\* for a timeout <= 0), or a final response in one of the status classes (a 3xx
\* that is not a followed redirect, such as 300 or 304, is a final response)
TransportErrors == {"Timeout", "ConnectionError"}
OtherFaults == {"ValueError"}
StatusClasses == {"2xx", "3xx", "4xx", "5xx"}
FetchOutcomes == TransportErrors \cup OtherFaults \cup StatusClasses

\* Response.raise_for_status() raises HTTPError for a 4xx or 5xx status only
RaisesForStatus(s) == s \in {"4xx", "5xx"}

\* "except requests.RequestException"
IsRequestException(o) == o \in TransportErrors \/ RaisesForStatus(o)

FetchFailed(u, o) ==
    ExtractedContent(<<>>, <<>>, <<>>, u, FALSE, Some(<<"Failed to fetch URL: ", o>>))

AllFailed(u) ==
    ExtractedContent(<<>>, <<>>, Placeholder, u, FALSE, Some(<<"All extraction methods failed">>))

ExtractInit ==
    /\ pc = "idle"
    /\ url = "" /\ status = "" /\ html = None /\ calls = <<>>
    /\ tResult = None /\ nResult = None /\ tKind = "" /\ nKind = ""
    /\ result = None

\* extract_content(url, timeout) is called
Call ==
    /\ pc \in {"idle", "returned", "raised"}
    /\ \E u \in Urls : url' = u
    /\ pc' = "fetch"
    /\ status' = "" /\ html' = None /\ calls' = <<>>
    /\ tResult' = None /\ nResult' = None /\ tKind' = "" /\ nKind' = ""
    /\ result' = None
    /\ UNCHANGED <<epubVars, chapterVars, sendVars, mainVars>>

\* lines 87-98: the try block around requests.get
Fetch ==
    /\ pc = "fetch"
    /\ calls' = Append(calls, "get")
    /\ \E o \in FetchOutcomes :
        /\ status' = o
        /\ IF o \in OtherFaults
           THEN pc' = "raised" /\ UNCHANGED <<html, result>>
           ELSE IF IsRequestException(o)
           THEN pc' = "returned" /\ result' = Some(FetchFailed(url, o)) /\ UNCHANGED html
           ELSE /\ pc' = "trafilatura"
                /\ \E h \in Markups : html' = Some(h)
                /\ UNCHANGED result
    /\ UNCHANGED <<url, tResult, nResult, tKind, nKind, epubVars, chapterVars, sendVars, mainVars>>

\* TryTrafilatura without line 103's return: the fallback always runs
TryTrafilaturaFallsThrough ==
    /\ pc = "trafilatura"
    /\ calls' = Append(calls, "trafilatura")
    /\ \E lib \in TrafilaturaBehaviours :
        /\ tKind' = lib.kind
        /\ tResult' = extract_with_trafilatura(url, html.val, lib)
    /\ pc' = "newspaper"
    /\ UNCHANGED <<url, status, html, nResult, nKind, result, epubVars, chapterVars, sendVars, mainVars>>

\* TryTrafilatura without line 46's "except Exception"
TryTrafilaturaUncaught ==
    /\ pc = "trafilatura"
    /\ calls' = Append(calls, "trafilatura")
    /\ \E lib \in TrafilaturaBehaviours :
        LET r == extract_with_trafilatura(url, html.val, lib) IN
        /\ tKind' = lib.kind
        /\ tResult' = r
        /\ IF lib.kind \in {"error", "metadata_error"}
           THEN pc' = "raised" /\ UNCHANGED result
           ELSE IF Accepted(r)
           THEN pc' = "returned" /\ result' = r
           ELSE pc' = "newspaper" /\ UNCHANGED result
    /\ UNCHANGED <<url, status, html, nResult, nKind, epubVars, chapterVars, sendVars, mainVars>>

\* lines 100-103
TryTrafilatura ==
    /\ pc = "trafilatura"
    /\ calls' = Append(calls, "trafilatura")
    /\ \E lib \in TrafilaturaBehaviours :
        LET r == extract_with_trafilatura(url, html.val, lib) IN
        /\ tKind' = lib.kind
        /\ tResult' = r
        /\ IF Accepted(r)
           THEN pc' = "returned" /\ result' = r
           ELSE pc' = "newspaper" /\ UNCHANGED result
    /\ UNCHANGED <<url, status, html, nResult, nKind, epubVars, chapterVars, sendVars, mainVars>>

\* lines 105-115
TryNewspaper ==
    /\ pc = "newspaper"
    /\ calls' = Append(calls, "newspaper")
    /\ \E lib \in NewspaperBehaviours :
        LET r == extract_with_newspaper(url, html.val, lib) IN
        /\ nKind' = lib.kind
        /\ nResult' = r
        /\ result' = IF Accepted(r) THEN r ELSE Some(AllFailed(url))
    /\ pc' = "returned"
    /\ UNCHANGED <<url, status, html, tResult, tKind, epubVars, chapterVars, sendVars, mainVars>>

----------------------------------------------------------------------------
(* convert_epub.py *)

\* str.replace(old, new), old non-empty: leftmost, non-overlapping occurrences
RECURSIVE Replace(_, _, _)
Replace(s, old, new) ==
    IF Len(s) < Len(old) THEN s
    ELSE IF SubSeq(s, 1, Len(old)) = old
         THEN new \o Replace(SubSeq(s, Len(old) + 1, Len(s)), old, new)
         ELSE <<Head(s)>> \o Replace(Tail(s), old, new)

\* 'x' in s
Contains(s, c) == \E i \in 1..Len(s) : s[i] = c

AmpEntity == <<"&", "a", "m", "p", ";">>
LtEntity == <<"&", "l", "t", ";">>
GtEntity == <<"&", "g", "t", ";">>

escape_html(text) ==
    Replace(Replace(Replace(text, <<"&">>, AmpEntity), <<"<">>, LtEntity), <<">">>, GtEntity)

\* str(n) for n >= 0
Digit(d) == <<"0", "1", "2", "3", "4", "5", "6", "7", "8", "9">>[d + 1]

RECURSIVE Str(_)
Str(n) == IF n < 10 THEN <<Digit(n)>> ELSE Str(n \div 10) \o <<Digit(n % 10)>>

ChapterPrefix == <<"c", "h", "a", "p", "t", "e", "r", "_">>
Xhtml == <<".", "x", "h", "t", "m", "l">>
NavFile == <<"n", "a", "v">> \o Xhtml

\* f"chapter_{i}"
ChapterId(i) == ChapterPrefix \o Str(i)

\* The list of links the navigation strip joins with " | "
create_navigation_html(prev_id, next_id) ==
    (IF ~prev_id.none /\ Truthy(prev_id.val)
        THEN <<[href |-> prev_id.val \o Xhtml, label |-> "Previous"]>> ELSE <<>>)
    \o <<[href |-> NavFile, label |-> "Menu"]>>
    \o (IF ~next_id.none /\ Truthy(next_id.val)
        THEN <<[href |-> next_id.val \o Xhtml, label |-> "Next"]>> ELSE <<>>)

UrlDisplayMax == 50
Ellipsis == <<".", ".", ".">>

\* line 36: "if '<' in content and '>' in content"
LooksLikeHtml(content) == Contains(content, "<") /\ Contains(content, ">")

\* lines 39-41: escape, then paragraphs and line breaks
ParagraphBreak == <<"<", "/", "p", ">", "<", "p", ">">>
LineBreak == <<"<", "b", "r", "/", ">">>
ParagraphOpen == <<"<", "p", ">">>
ParagraphClose == <<"<", "/", "p", ">">>

WrapPlainText(content) ==
    ParagraphOpen
    \o Replace(Replace(escape_html(content), <<"\n", "\n">>, ParagraphBreak), <<"\n">>, LineBreak)
    \o ParagraphClose

\* The slots of the chapter template, in the order the template fills them
create_chapter_html(title, author, u, content, prev_id, next_id) ==
    LET escaped_title == escape_html(title)
        escaped_author == escape_html(author)
        display_url == escape_html(IF Len(u) > UrlDisplayMax
                                   THEN SubSeq(u, 1, UrlDisplayMax) \o Ellipsis ELSE u)
        content_html == IF LooksLikeHtml(content) THEN content ELSE WrapPlainText(content)
    IN [head_title |-> escaped_title,
        nav_top |-> create_navigation_html(prev_id, next_id),
        h1 |-> escaped_title,
        by |-> escaped_author,
        href |-> u,
        display_url |-> display_url,
        content_html |-> content_html,
        nav_bottom |-> create_navigation_html(prev_id, next_id)]

\* dict.get(key, default)
Get(d, k, default) == IF k \in DOMAIN d THEN d[k] ELSE default

PostPrefix == <<"P", "o", "s", "t", " ">>
Unknown == <<"U", "n", "k", "n", "o", "w", "n">>
NoContent == <<"No content available">>

\* NextId with "i < len(posts)" for "i < len(posts) - 1"
NextIdOffByOne(i, n) == IF i < n THEN Some(ChapterId(i + 1)) ELSE None

\* lines 104-105
PrevId(i) == IF i > 0 THEN Some(ChapterId(i - 1)) ELSE None
NextId(i, n) == IF i < n - 1 THEN Some(ChapterId(i + 1)) ELSE None

Css == [type |-> "EpubItem", uid |-> "style", file_name |-> "style/main.css"]

\* lines 103-122: the chapter built for posts[i] (i is 0-based, as in the code)
Chapter(ps, i) ==
    LET post == ps[i + 1] IN
    [type |-> "EpubHtml",
     title |-> Get(post, "title", PostPrefix \o Str(i + 1)),
     file_name |-> ChapterId(i) \o Xhtml,
     lang |-> "en",
     content |-> create_chapter_html(Get(post, "title", PostPrefix \o Str(i + 1)),
                                     Get(post, "author", Unknown),
                                     Get(post, "url", <<>>),
                                     Get(post, "content", NoContent),
                                     PrevId(i), NextId(i, Len(ps))),
     links |-> <<Css.file_name>>]

Chapters(ps) == [j \in 1..Len(ps) |-> Chapter(ps, j - 1)]

\* Spine with the nav entry appended after the chapters
SpineNavLast(chapters) == chapters \o <<[type |-> "ref", uid |-> "nav"]>>

\* lines 126-129
Toc(chapters) == chapters
Spine(chapters) == <<[type |-> "ref", uid |-> "nav"]>> \o chapters

\* lines 86-132: the book handed to epub.write_epub
create_epub(ps, title, today) ==
    LET chapters == Chapters(ps) IN
    [identifier |-> <<"hn-daily-", today>>,
     title |-> IF ~title.none /\ Truthy(title.val) THEN title.val ELSE <<"HN Daily - ", today>>,
     language |-> "en",
     author |-> "HN2Kindle",
     items |-> <<Css>> \o chapters \o <<[type |-> "EpubNcx"], [type |-> "EpubNav"]>>,
     toc |-> Toc(chapters),
     spine |-> Spine(chapters)]

\* The posts create_epub is given: dicts that may lack a key or hold an empty value
FieldValues == {None, Some(<<>>), Some(<<"a">>)}

MkPost(t, a, u, c) ==
    LET f == [title |-> t, author |-> a, url |-> u, content |-> c] IN
    [k \in {x \in {"title", "author", "url", "content"} : ~f[x].none} |-> f[k].val]

PostDicts ==
    {MkPost(t, a, Some(<<"u">>), Some(<<"a">>)) : t \in FieldValues, a \in FieldValues}
    \cup {MkPost(None, None, None, None),
          MkPost(Some(<<"<">>), Some(<<"&">>), Some(<<"u">>), Some(<<"<", "p", ">">>))}

PostLists == UNION {[1..n -> PostDicts] : n \in 0..MaxPosts}

EpubInit == posts = <<>> /\ book = None

\* create_epub is called once
CreateEpub ==
    /\ book = None
    /\ \E ps \in PostLists, title \in {None, Some(<<"a">>)} :
        /\ posts' = ps
        /\ book' = Some(create_epub(ps, title, "2024-01-01"))
    /\ UNCHANGED <<extractVars, chapterVars, sendVars, mainVars>>

\* The arguments create_chapter_html is given: the caller's fields vary with a few
\* bodies, and the body varies with a few fields
LongPrefix == [i \in 1..(UrlDisplayMax - 2) |-> "a"]
UrlTexts == TextsUpTo(2) \cup {LongPrefix \o t : t \in TextsUpTo(3)}
IdValues == {None, Some(ChapterId(0))}

ChapterInputs ==
    {[title |-> t, author |-> a, url |-> u, content |-> c, prev_id |-> p, next_id |-> n] :
        t \in Texts, a \in TextsUpTo(1), u \in {<<"u">>, <<"<">>}, c \in {<<"a">>},
        p \in {None}, n \in IdValues}
    \cup {[title |-> <<"a">>, author |-> <<>>, url |-> u, content |-> <<"<", ">">>,
           prev_id |-> None, next_id |-> None] : u \in UrlTexts}
    \cup {[title |-> <<"a">>, author |-> <<>>, url |-> <<"u">>, content |-> c,
           prev_id |-> p, next_id |-> None] : c \in Texts, p \in IdValues}

ChapterInit == chapterIn = None /\ view = None

\* create_chapter_html is called once
CreateChapterHtml ==
    /\ view = None
    /\ \E in \in ChapterInputs :
        /\ chapterIn' = Some(in)
        /\ view' = Some(create_chapter_html(in.title, in.author, in.url, in.content,
                                            in.prev_id, in.next_id))
    /\ UNCHANGED <<extractVars, epubVars, sendVars, mainVars>>

----------------------------------------------------------------------------
(* send_kindle.py *)

\* The characters of an environment setting
EnvAlphabet == {"a", "@", ",", " "}
EnvTexts == UNION {[1..k -> EnvAlphabet] : k \in 0..MaxEnvLen}

\* os.getenv(name): None when the variable is not set
Addresses == {None, Some(<<>>), Some(<<"a">>), Some(<<"a", "@", "a">>)}
Passwords == {None, Some(<<>>), Some(<<"p">>)}
EmailSettings == {None} \cup {Some(t) : t \in EnvTexts}

Raise(exc, message) == [raised |-> TRUE, exc |-> exc, message |-> message]
Return(v) == [raised |-> FALSE, val |-> v]

\* lines 14-24
get_gmail_credentials(env) ==
    IF env.GMAIL_ADDRESS.none \/ ~Truthy(env.GMAIL_ADDRESS.val)
    THEN Raise("ValueError", "GMAIL_ADDRESS environment variable is not set")
    ELSE IF env.GMAIL_APP_PASSWORD.none \/ ~Truthy(env.GMAIL_APP_PASSWORD.val)
    THEN Raise("ValueError", "GMAIL_APP_PASSWORD environment variable is not set")
    ELSE Return(<<env.GMAIL_ADDRESS.val, env.GMAIL_APP_PASSWORD.val>>)

\* str.split(",")
RECURSIVE SplitFrom(_, _)
SplitFrom(s, cur) ==
    IF s = <<>> THEN <<cur>>
    ELSE IF Head(s) = "," THEN <<cur>> \o SplitFrom(Tail(s), <<>>)
    ELSE SplitFrom(Tail(s), Append(cur, Head(s)))

Split(s) == SplitFrom(s, <<>>)

\* [email.strip() for email in parts if email.strip()]
RECURSIVE StripNonEmpty(_)
StripNonEmpty(parts) ==
    IF parts = <<>> THEN <<>>
    ELSE (IF Truthy(Strip(Head(parts))) THEN <<Strip(Head(parts))>> ELSE <<>>)
         \o StripNonEmpty(Tail(parts))

\* lines 27-33
get_kindle_emails(env) ==
    LET emails_str == IF env.KINDLE_EMAILS.none THEN <<>> ELSE env.KINDLE_EMAILS.val IN
    IF ~Truthy(emails_str)
    THEN Raise("ValueError", "KINDLE_EMAILS environment variable is not set")
    ELSE Return(StripNonEmpty(Split(emails_str)))

\* What the SMTP session of lines 86-89 can do: succeed, raise an SMTPException, or
\* raise something else (a refused connection is an OSError)
SmtpOutcomes == {"sent", "SMTPException", "OSError"}

\* How a call ends: the exception it raises or the value it returns, what it
\* printed, and the SMTP sessions it opened
Ended(how, printed, sessions) == [how |-> how, printed |-> printed, sessions |-> sessions]

\* lines 36-94
send_to_kindle(epub_exists, kindle_emails, env, smtp) ==
    LET creds == get_gmail_credentials(env) IN
    IF creds.raised THEN Ended(creds, "", <<>>)
    ELSE LET emails == IF kindle_emails.none THEN get_kindle_emails(env)
                       ELSE Return(kindle_emails.val) IN
         IF emails.raised THEN Ended(emails, "", <<>>)
         ELSE IF emails.val = <<>>
         THEN Ended(Return(FALSE), "No Kindle email addresses configured", <<>>)
         ELSE IF ~epub_exists
         THEN Ended(Return(FALSE), "EPUB file not found", <<>>)
         ELSE LET session == [from |-> creds.val[1], to |-> emails.val] IN
              IF smtp = "sent" THEN Ended(Return(TRUE), "", <<session>>)
              ELSE IF smtp = "SMTPException"
              THEN Ended(Return(FALSE), "Failed to send emails", <<session>>)
              ELSE Ended(Raise(smtp, ""), "", <<session>>)

EmailLists == {None, Some(<<>>), Some(<<<<"a", "@", "a">>>>)}

SendInputs ==
    {[epub_exists |-> x, kindle_emails |-> k, smtp |-> o,
      env |-> [GMAIL_ADDRESS |-> a, GMAIL_APP_PASSWORD |-> p, KINDLE_EMAILS |-> e]] :
        x \in BOOLEAN, k \in EmailLists, o \in SmtpOutcomes,
        a \in Addresses, p \in Passwords, e \in EmailSettings}

SendInit == sendIn = None /\ sendOut = None

\* send_to_kindle is called once
SendToKindle ==
    /\ sendOut = None
    /\ \E in \in SendInputs :
        /\ sendIn' = Some(in)
        /\ sendOut' = Some(send_to_kindle(in.epub_exists, in.kindle_emails, in.env, in.smtp))
    /\ UNCHANGED <<extractVars, epubVars, chapterVars, mainVars>>

----------------------------------------------------------------------------
(* main.py *)

\* content_extractor.py lines 76-115 as one call: env is what requests, trafilatura
\* and newspaper do during it
extract_content(u, env) ==
    IF env.fetch \in OtherFaults THEN Raise(env.fetch, "")
    ELSE IF IsRequestException(env.fetch) THEN Return(FetchFailed(u, env.fetch))
    ELSE LET t == extract_with_trafilatura(u, env.html, env.trafilatura) IN
         IF Accepted(t) THEN Return(t.val)
         ELSE LET n == extract_with_newspaper(u, env.html, env.newspaper) IN
              IF Accepted(n) THEN Return(n.val) ELSE Return(AllFailed(u))

\* What the libraries do during main's extract_content calls
MainEnvs ==
    {[fetch |-> f, html |-> "markup1", trafilatura |-> t, newspaper |-> n] :
        f \in {"Timeout", "ValueError", "2xx"},
        t \in {[kind |-> "error"],
               [kind |-> "value", result |-> Some(<<"\n">>), metadata |-> None],
               [kind |-> "value", result |-> Some(<<"<", "p", ">">>),
                metadata |-> Some([title |-> Some(<<"m">>), author |-> Some(<<"w">>)])]},
        n \in {[kind |-> "absent"],
               [kind |-> "value", text |-> <<"a">>, title |-> None, authors |-> <<>>]}}

\* What fetch_top_posts returns: the Source Lister's candidates
CandidatePool ==
    {[title |-> t, url |-> u, author |-> <<"h">>, score |-> 10, comment_count |-> 0] :
        t \in {<<"a">>, <<"&">>}, u \in {<<"u">>, <<"v">>}}

CandidateLists == UNION {[1..n -> CandidatePool] : n \in 0..MaxCandidates}

\* line 94 without its content.strip() test
SkippedOnlyFailed(e) == ~e.success

\* line 94: "if not extracted.success or not extracted.content.strip()"
Skipped(e) == ~e.success \/ ~Truthy(Strip(e.content))

\* lines 98-105
EnrichedPost(post, e) ==
    [title |-> post.title,
     author |-> IF Truthy(e.author) THEN e.author ELSE post.author,
     url |-> post.url,
     content |-> e.content,
     score |-> post.score,
     comment_count |-> post.comment_count]

\* lines 59-82
MainFetchPosts ==
    /\ mpc = "start"
    /\ \E cs \in CandidateLists :
        /\ candidates' = cs
        /\ mpc' = IF cs = <<>> THEN "exit" ELSE "extract"
    /\ UNCHANGED <<extractVars, epubVars, chapterVars, sendVars, extracted, enriched, report>>

\* lines 88-105: one iteration of the loop
MainExtract ==
    /\ mpc = "extract"
    /\ LET i == Len(extracted) + 1
           post == candidates[i]
       IN \E env \in MainEnvs :
            LET r == extract_content(post.url, env) IN
            /\ extracted' = Append(extracted, [url |-> post.url, ended |-> r])
            /\ IF r.raised
               THEN mpc' = "crashed" /\ UNCHANGED enriched
               ELSE /\ enriched' = IF Skipped(r.val) THEN enriched
                                   ELSE Append(enriched, EnrichedPost(post, r.val))
                    /\ mpc' = IF i = Len(candidates) THEN "epub" ELSE "extract"
    /\ UNCHANGED <<extractVars, epubVars, chapterVars, sendVars, candidates, report>>

\* lines 109-120
MainCreateEpub ==
    /\ mpc = "epub"
    /\ posts' = enriched
    /\ book' = Some(create_epub(enriched, None, "2024-01-01"))
    /\ mpc' = "send"
    /\ UNCHANGED <<extractVars, chapterVars, sendVars, candidates, extracted, enriched, report>>

MainSendInputs ==
    {[epub_exists |-> TRUE, kindle_emails |-> None, smtp |-> o,
      env |-> [GMAIL_ADDRESS |-> a, GMAIL_APP_PASSWORD |-> Some(<<"p">>), KINDLE_EMAILS |-> e]] :
        o \in SmtpOutcomes, a \in {None, Some(<<"a", "@", "a">>)},
        e \in {Some(<<",">>), Some(<<"a", "@", "a">>)}}

\* lines 122-149: the send step and the cleanup
MainSend ==
    /\ mpc = "send"
    /\ \E skip_send \in BOOLEAN, keep_epub \in BOOLEAN, in \in MainSendInputs :
        IF skip_send
        THEN /\ mpc' = "done"
             /\ report' = [send |-> "Skipping send to Kindle", epub_left |-> TRUE]
             /\ UNCHANGED sendVars
        ELSE LET out == send_to_kindle(in.epub_exists, in.kindle_emails, in.env, in.smtp) IN
             /\ sendIn' = Some(in)
             /\ sendOut' = Some(out)
             /\ IF out.how.raised
                THEN IF out.how.exc = "ValueError"
                     THEN /\ mpc' = "exit"
                          /\ report' = [send |-> "Configuration error", epub_left |-> TRUE]
                     ELSE /\ mpc' = "crashed"
                          /\ report' = [send |-> "", epub_left |-> TRUE]
                ELSE IF out.how.val
                     THEN /\ mpc' = "done"
                          /\ report' = [send |-> "Successfully sent to Kindle!",
                                        epub_left |-> keep_epub]
                     ELSE /\ mpc' = "exit"
                          /\ report' = [send |-> "Failed to send to Kindle", epub_left |-> TRUE]
    /\ UNCHANGED <<extractVars, epubVars, chapterVars, candidates, extracted, enriched>>

MainNext == MainFetchPosts \/ MainExtract \/ MainCreateEpub \/ MainSend

----------------------------------------------------------------------------
(* Specifications *)

MainInit ==
    /\ mpc = "start" /\ candidates = <<>> /\ extracted = <<>> /\ enriched = <<>>
    /\ report = [send |-> "", epub_left |-> FALSE]

Init == ExtractInit /\ EpubInit /\ ChapterInit /\ SendInit /\ MainInit

ExtractNext == Call \/ Fetch \/ TryTrafilatura \/ TryNewspaper

\* extract_content
SpecExtract == Init /\ [][ExtractNext]_vars

\* create_epub
SpecEpub == Init /\ [][CreateEpub]_vars

\* create_chapter_html
SpecChapter == Init /\ [][CreateChapterHtml]_vars

\* send_to_kindle
SpecSend == Init /\ [][SendToKindle]_vars

\* main
SpecMain == Init /\ [][MainNext]_vars

----------------------------------------------------------------------------
(* Claims about extract_content, under SpecExtract *)

Count(seq, x) == Cardinality({i \in 1..Len(seq) : seq[i] = x})
YieldedContent(r) == ~r.none /\ r.val.content # <<>>
FailKinds == {"absent", "error", "metadata_error", "empty"}

\* C1: extract_content never raises to its caller: whatever the fetch and the
\* strategies do, the call returns an ExtractedContent record, and a failure is a
\* record with success = false and a non-empty error text.
C1_NeverRaises ==
    /\ pc # "raised"
    /\ pc = "returned" =>
        /\ ~result.none
        /\ ~result.val.success => (~result.val.error.none /\ result.val.error.val # <<>>)

\* C2: every record extract_content returns satisfies the ContentRecord invariant:
\* success implies content that is non-empty after whitespace trimming, failure
\* implies content that is empty or the placeholder, and error is present exactly
\* when success is false.
C2_RecordInvariant ==
    pc = "returned" =>
        LET r == result.val IN
        /\ r.success => Strip(r.content) # <<>>
        /\ ~r.success => r.content \in {<<>>, <<"[Content could not be extracted from this page]">>}
        /\ ~r.error.none <=> ~r.success

\* C3: within one call the structured (trafilatura) strategy is attempted before
\* the heuristic (newspaper) strategy, and when the structured strategy yields
\* non-empty content the heuristic strategy is never invoked and the call returns
\* the structured strategy's record.
C3_ShortCircuit ==
    /\ \A i \in 1..Len(calls) :
        calls[i] = "newspaper" => \E j \in 1..(i - 1) : calls[j] = "trafilatura"
    /\ YieldedContent(tResult) =>
        /\ Count(calls, "newspaper") = 0
        /\ pc = "returned"
        /\ result = tResult

C3_Witness ==
    /\ pc = "returned"
    /\ YieldedContent(tResult)
    /\ calls = <<"get", "trafilatura">>
    /\ result.val.success

\* C4: each call issues exactly one retrieval, and a retrieval that ends in a
\* timeout, a connection error or a non-2xx status makes the call return a failed
\* record whose error describes the transport failure, with no strategy invoked
\* and no second retrieval.
C4_TransportShortCircuit ==
    /\ pc \in {"trafilatura", "newspaper", "returned", "raised"} => Count(calls, "get") = 1
    /\ status \in TransportErrors \cup (StatusClasses \ {"2xx"}) =>
        /\ calls = <<"get">>
        /\ pc = "returned"
        /\ ~result.val.success
        /\ result.val.error = Some(<<"Failed to fetch URL: ", status>>)

\* C5: when the fetch succeeds and each strategy raises, is absent or yields empty
\* content, both strategies have been attempted in order and the call returns
\* success = false with the placeholder content and the all-methods-failed error;
\* a failure of the first strategy never prevents the second from being attempted.
C5_Exhaustion ==
    /\ tKind \in FailKinds =>
        /\ pc \in {"newspaper", "returned"}
        /\ pc = "returned" => calls = <<"get", "trafilatura", "newspaper">>
    /\ (pc = "returned" /\ tKind \in FailKinds /\ nKind \in FailKinds) =>
        /\ result.val.success = FALSE
        /\ result.val.content = <<"[Content could not be extracted from this page]">>
        /\ result.val.error = Some(<<"All extraction methods failed">>)

C5_Witness ==
    /\ pc = "returned"
    /\ tKind = "error"
    /\ nKind = "absent"
    /\ calls = <<"get", "trafilatura", "newspaper">>
    /\ ~result.val.success

----------------------------------------------------------------------------
(* Claims about create_epub, under SpecEpub *)

IsChapter(item) == item.type = "EpubHtml"
IsNav(item) == item.type = "EpubNav"
IsNavRef(entry) == entry.type = "ref" /\ entry.uid = "nav"
ChapterFile(i) ==
    <<"c", "h", "a", "p", "t", "e", "r", "_">> \o Str(i) \o <<".", "x", "h", "t", "m", "l">>
LinksTo(links, label) == {links[k].href : k \in {x \in 1..Len(links) : links[x].label = label}}
LabelCount(links, label) == Cardinality({k \in 1..Len(links) : links[k].label = label})

NavigationOf(links, i, n) ==
    /\ LabelCount(links, "Menu") = 1
    /\ LinksTo(links, "Menu") = {<<"n", "a", "v", ".", "x", "h", "t", "m", "l">>}
    /\ LabelCount(links, "Previous") = IF i > 0 THEN 1 ELSE 0
    /\ LinksTo(links, "Previous") = IF i > 0 THEN {ChapterFile(i - 1)} ELSE {}
    /\ LabelCount(links, "Next") = IF i < n - 1 THEN 1 ELSE 0
    /\ LinksTo(links, "Next") = IF i < n - 1 THEN {ChapterFile(i + 1)} ELSE {}

\* C6: for N >= 1 records create_epub builds exactly N chapters chapter_0 ..
\* chapter_{N-1} and one manifest entry; chapter i links to chapter i-1 as previous
\* and chapter i+1 as next, with no previous link on chapter 0 and no next link on
\* chapter N-1, and every chapter carries the menu link.
C6_ChaptersAndNavigation ==
    (~book.none /\ Len(posts) >= 1) =>
        LET n == Len(posts)
            chs == SelectSeq(book.val.items, IsChapter)
        IN /\ Len(chs) = n
           /\ Len(SelectSeq(book.val.items, IsNav)) = 1
           /\ \A i \in 0..(n - 1) :
                /\ chs[i + 1].file_name = ChapterFile(i)
                /\ NavigationOf(chs[i + 1].content.nav_top, i, n)
                /\ NavigationOf(chs[i + 1].content.nav_bottom, i, n)

C6_Witness ==
    /\ ~book.none
    /\ Len(posts) = 3
    /\ LinksTo(book.val.items[3].content.nav_top, "Previous") = {ChapterFile(0)}
    /\ LinksTo(book.val.items[3].content.nav_top, "Next") = {ChapterFile(2)}
    /\ LabelCount(book.val.items[4].content.nav_top, "Next") = 0

TitleGiven(post, i) ==
    IF "title" \in DOMAIN post THEN post["title"] ELSE <<"P", "o", "s", "t", " ">> \o Str(i)

\* C7: for N >= 0 records (the empty list gives a zero-chapter document) the
\* document lists the manifest entry and every chapter exactly once in the resource
\* bundle and exactly once in the reading order, the manifest entry comes first in
\* the reading order, and the reading order, the table of contents and the input
\* list have the chapters in the same order.
C7_BundleAndReadingOrder ==
    ~book.none =>
        LET n == Len(posts)
            b == book.val
            chs == SelectSeq(b.items, IsChapter)
        IN /\ Len(SelectSeq(b.items, IsNav)) = 1
           /\ Len(chs) = n
           /\ \A i \in 0..(n - 1) : chs[i + 1].file_name = ChapterFile(i)
           /\ Len(b.spine) = n + 1
           /\ IsNavRef(b.spine[1])
           /\ Len(b.toc) = n
           /\ \A i \in 1..n :
                /\ b.spine[i + 1] = chs[i]
                /\ b.toc[i] = chs[i]
                /\ chs[i].title = TitleGiven(posts[i], i)

C7_Witness ==
    /\ ~book.none
    /\ Len(posts) = 2
    /\ posts[1] # posts[2]
    /\ Len(book.val.spine) = 3
    /\ book.val.toc[2].title = <<"a">>
    /\ book.val.toc[1].title = <<>>

\* C8: a record at 0-based position i whose title is the empty string gets the
\* chapter title "Post i+1", one whose author is the empty string renders the
\* author "Unknown", and a non-empty title or author is used as given.
C8_PlaceholderFallback ==
    ~book.none =>
        \A i \in 0..(Len(posts) - 1) :
            LET post == posts[i + 1]
                ch == SelectSeq(book.val.items, IsChapter)[i + 1]
            IN /\ ("title" \in DOMAIN post /\ post["title"] = <<>>) =>
                    /\ ch.title = <<"P", "o", "s", "t", " ">> \o Str(i + 1)
                    /\ ch.content.h1 = <<"P", "o", "s", "t", " ">> \o Str(i + 1)
               /\ ("author" \in DOMAIN post /\ post["author"] = <<>>) =>
                    ch.content.by = <<"U", "n", "k", "n", "o", "w", "n">>
               /\ ("title" \in DOMAIN post /\ post["title"] # <<>>) =>
                    (ch.title = post["title"] /\ ch.content.h1 = escape_html(post["title"]))
               /\ ("author" \in DOMAIN post /\ post["author"] # <<>>) =>
                    ch.content.by = escape_html(post["author"])

----------------------------------------------------------------------------
(* Claims about create_chapter_html, under SpecChapter *)

RECURSIVE Escaped(_)
Escaped(text) ==
    IF text = <<>> THEN <<>>
    ELSE (CASE Head(text) = "&" -> <<"&", "a", "m", "p", ";">>
            [] Head(text) = "<" -> <<"&", "l", "t", ";">>
            [] Head(text) = ">" -> <<"&", "g", "t", ";">>
            [] OTHER -> <<Head(text)>>) \o Escaped(Tail(text))

NoRawMarkup(text) == \A k \in 1..Len(text) : text[k] \notin {"<", ">"}

\* C9: the text embedded for the title, the author and the displayed URL has every
\* '&', '<' and '>' of the input replaced by its entity, ampersand first, so no raw
\* '<' or '>' coming from the title, the author or the source URL appears in the
\* rendered view.
C9_FieldsEscaped ==
    ~view.none =>
        LET in == chapterIn.val
            v == view.val
            shown == IF Len(in.url) > 50 THEN SubSeq(in.url, 1, 50) \o <<".", ".", ".">>
                     ELSE in.url
        IN /\ v.head_title = Escaped(in.title)
           /\ v.h1 = Escaped(in.title)
           /\ v.by = Escaped(in.author)
           /\ v.display_url = Escaped(shown)
           /\ \A slot \in {"head_title", "h1", "by", "href", "display_url"} : NoRawMarkup(v[slot])

HtmlShape(content) ==
    \E i \in 1..Len(content) : \E j \in (i + 1)..Len(content) :
        content[i] = "<" /\ content[j] = ">"

\* C10: a body is embedded verbatim and unescaped if and only if it contains a '<'
\* followed at some later position by a '>'; every other body is escaped and
\* reflowed, blank-line-delimited paragraphs becoming paragraph blocks and single
\* newlines line breaks.
C10_ContentShape ==
    ~view.none =>
        LET c == chapterIn.val.content
            v == view.val
        IN /\ HtmlShape(c) <=> v.content_html = c
           /\ ~HtmlShape(c) => v.content_html = WrapPlainText(c)

----------------------------------------------------------------------------
(* Claims about main, under SpecMain *)

\* The extractions main keeps, by what extract_content returned
Kept(x) ==
    /\ ~x.ended.raised
    /\ x.ended.val.success
    /\ \E k \in 1..Len(x.ended.val.content) : x.ended.val.content[k] \notin {" ", "\n", "\t", "\r"}

RECURSIVE KeptIndices(_)
KeptIndices(k) ==
    IF k = 0 THEN <<>>
    ELSE KeptIndices(k - 1) \o (IF Kept(extracted[k]) THEN <<k>> ELSE <<>>)

\* C11: main extracts the candidates one at a time in the lister's order, one
\* extract_content call per candidate, and the list handed to create_epub holds
\* exactly the candidates whose extraction returned success with non-blank content,
\* once each, in candidate order, each with the lister's title; a failed record
\* never becomes a chapter.
C11_PipelineExclusion ==
    /\ Len(extracted) <= Len(candidates)
    /\ \A k \in 1..Len(extracted) : extracted[k].url = candidates[k].url
    /\ ~book.none =>
        LET kept == KeptIndices(Len(extracted)) IN
        /\ Len(extracted) = Len(candidates)
        /\ Len(posts) = Len(kept)
        /\ \A j \in 1..Len(kept) :
            /\ posts[j]["title"] = candidates[kept[j]].title
            /\ posts[j]["url"] = candidates[kept[j]].url
            /\ posts[j]["content"] = extracted[kept[j]].ended.val.content
        /\ Len(SelectSeq(book.val.items, IsChapter)) = Len(kept)

C11_Witness ==
    /\ ~book.none
    /\ Len(candidates) = 2
    /\ candidates[1].title # candidates[2].title
    /\ ~extracted[1].ended.raised
    /\ extracted[1].ended.val.success
    /\ ~Kept(extracted[1])
    /\ Kept(extracted[2])
    /\ Len(posts) = 1
    /\ posts[1]["title"] = candidates[2].title

----------------------------------------------------------------------------
(* Claims about send_to_kindle, under SpecSend *)

Unset(setting) == setting.none \/ setting.val = <<>>
Usable(address) == \E k \in 1..Len(address) : address[k] \notin {" ", "\n", "\t", "\r"}

\* The recipients of a call: the argument, or else the comma-separated setting
NoUsableRecipient(in) ==
    IF in.kindle_emails.none
    THEN \/ Unset(in.env.KINDLE_EMAILS)
         \/ \A k \in 1..Len(in.env.KINDLE_EMAILS.val) :
                in.env.KINDLE_EMAILS.val[k] \in {",", " ", "\n", "\t", "\r"}
    ELSE \A k \in 1..Len(in.kindle_emails.val) : ~Usable(in.kindle_emails.val[k])

\* C12: when the sender address, the password or the recipient list is absent or
\* holds no usable address (only commas or whitespace), send_to_kindle raises
\* ValueError before any connection or send attempt, which the caller can tell
\* from a delivery failure (a False return after a send attempt).
C12_ConfigurationError ==
    ~sendOut.none =>
        LET in == sendIn.val
            out == sendOut.val
        IN (Unset(in.env.GMAIL_ADDRESS) \/ Unset(in.env.GMAIL_APP_PASSWORD) \/ NoUsableRecipient(in))
            => /\ out.how.raised
               /\ out.how.exc = "ValueError"
               /\ out.sessions = <<>>

====
